---- MODULE Spec2Model ----
(***************************************************************************)
(* Thread ownership in "02- Managing Threads.cpp": std::thread objects,    *)
(* thread_guard, scoped_thread and joining_thread, the workers they own    *)
(* (func::operator()), the functions f2, f and oops that use them, the      *)
(* statements of section 2.3 and parallel_accumulate.                      *)
(*                                                                         *)
(* One owner thread calls the operations; every launched worker runs      *)
(* concurrently with it.  A call that has to wait for a worker (a join)    *)
(* stays "blocked" until the worker's callable has returned.               *)
(***************************************************************************)
EXTENDS Naturals, Integers, FiniteSets, Sequences, TLC

\* ---------------------------------------------------------------- bounds
\* The longest range handed to parallel_accumulate.
MaxLength == 77
\* The largest value std::thread::hardware_concurrency() returns.
MaxHardwareThreads == 4
\* The ranges tried: one per pattern 0..MaxPattern and length.
MaxPattern == 1
\* init is drawn from 0..MaxInit.
MaxInit == 1
\* Object slots (storage for std::thread, scoped_thread, joining_thread).
NumObj == 2
\* Workers that can be launched in one run.
NumWorkers == 2
\* Iterations of the worker's loop (the source loops 1000000 times).
Iterations == 2

Obj == 1..NumObj
Workers == 1..NumWorkers

VARIABLES
    kind,        \* kind[o]: "none" | "thread" | "scoped_thread" | "joining_thread"
    thr,         \* thr[o]: the worker the std::thread of slot o represents, 0: none
    guard,       \* guard[o]: a thread_guard holding a reference to thread o is alive
    wstate,      \* wstate[w]: "unborn" | "running" | "finished"
    cnt,         \* cnt[w]: writes done by worker w (calls of do_something)
    joins,       \* joins[w]: completed join() calls on worker w
    detaches,    \* detaches[w]: detach() calls on worker w
    call,        \* the owner's call in progress, or the last one that returned
    terminated,  \* std::terminate() was called
    pc,          \* position inside f2 / f / oops ("free": no such function runs)
    local,       \* some_local_state: "none" | "alive" | "dead"
    exc,         \* the exception in flight: "none" | "std::exception" | "other"
    uaf,         \* a worker called do_something(i) on a dead some_local_state
    \* parallel_accumulate(first, last, init); iterators are offsets from first
    data,              \* the elements of [first, last)
    init,              \* T init
    hardware_threads,  \* what std::thread::hardware_concurrency() returns
    block_start,       \* Iterator block_start
    i,                 \* the index of the loop that launches the workers
    entry,             \* the element of threads the joining loop is at (from 1)
    results,           \* std::vector<T> results
    threads,           \* std::vector<std::thread> threads, with each one's worker
    writers,           \* writers[k]: the threads that have assigned to results[k]
    retval             \* <<v>> once parallel_accumulate has returned v

accvars ==
    <<data, init, hardware_threads, block_start, i, entry, results, threads, writers,
      retval>>
objvars == <<kind, thr, guard>>
wvars == <<wstate, cnt>>
resvars == <<joins, detaches>>
scopevars == <<pc, local, exc>>
vars ==
    <<kind, thr, guard, wstate, cnt, joins, detaches, call, terminated, pc, local, exc,
      uaf, accvars>>

\* ------------------------------------------------------------- std::thread
\* std::thread::joinable(): the object represents a thread of execution.
joinable(o) == thr[o] # 0

\* A wait that is over before the worker's callable has returned.
FinishedAtOnce(w) == TRUE

\* The callable of worker w has returned.
Finished(w) == wstate[w] = "finished"

\* A worker that has not been launched yet (the lowest such id).
HasUnborn == \E w \in Workers : wstate[w] = "unborn"
NextWorker == CHOOSE w \in Workers :
                 /\ wstate[w] = "unborn"
                 /\ \A v \in Workers : wstate[v] = "unborn" => w <= v

\* A call record: op and the object it acts on, whether it is blocked in a
\* join, the worker held by a by-value std::thread parameter, the source
\* object of a move, the worker the call joined or detached (0: none), and
\* how the call ended.
Ret(op, o, err) ==
    [op |-> op, o |-> o, blocked |-> FALSE, other |-> 0, src |-> 0, w |-> 0,
     err |-> err]
RetW(op, o, s, w) ==
    [op |-> op, o |-> o, blocked |-> FALSE, other |-> 0, src |-> s, w |-> w,
     err |-> "ok"]
Blocked(op, o, other, src) ==
    [op |-> op, o |-> o, blocked |-> TRUE, other |-> other, src |-> src, w |-> 0,
     err |-> "ok"]

\* The owner can start a new call.
Idle == ~terminated /\ ~call.blocked

\* The owner is not inside one of the functions f2, f, oops: it calls the
\* operations in any order.
Free == pc = "free" /\ UNCHANGED <<pc, local, exc>>

\* The sources of a std::thread passed by value: a std::thread variable that
\* is moved from, or (0) a temporary std::thread(func) launching a worker.
ThreadArgs == {s \in Obj : kind[s] = "thread"} \cup {0}
ArgOk(s) == s # 0 \/ HasUnborn
ArgWorker(s) == IF s = 0 THEN NextWorker ELSE thr[s]
\* wstate after the argument has been evaluated
ArgLaunch(s) == IF s = 0 THEN [wstate EXCEPT ![NextWorker] = "running"] ELSE wstate
\* thr after the argument has been moved into the parameter
ArgTaken(s) == IF s = 0 THEN thr ELSE [thr EXCEPT ![s] = 0]

\* std::thread::join() once the wait is over: the object stops representing
\* the worker, which has now been joined once more.
JoinedThr(o) == [thr EXCEPT ![o] = 0]
JoinedJoins(o) == [joins EXCEPT ![thr[o]] = @ + 1]

\* std::terminate(): the process is gone, nothing runs any more.
Terminate(op, o) ==
    /\ terminated' = TRUE
    /\ call' = Ret(op, o, "terminate")
    /\ UNCHANGED <<objvars, wvars, resvars, uaf, accvars>>

\* A call that has to wait for the worker of o before it can go on.
Block(op, o, other, src) ==
    /\ call' = Blocked(op, o, other, src)
    /\ UNCHANGED <<kind, guard, cnt, resvars, terminated, uaf, accvars>>

\* std::thread t;
thread_default_effect(o) ==
    /\ kind' = [kind EXCEPT ![o] = "thread"]
    /\ call' = Ret("thread()", o, "ok")
    /\ UNCHANGED <<thr, guard, wvars, resvars, terminated, uaf, accvars>>

thread_default(o) ==
    /\ Idle /\ Free
    /\ kind[o] = "none"
    /\ thread_default_effect(o)

\* std::thread t(my_func): a new worker starts running at once.
thread_launch(o) ==
    /\ Idle /\ Free
    /\ kind[o] = "none"
    /\ HasUnborn
    /\ kind' = [kind EXCEPT ![o] = "thread"]
    /\ thr' = [thr EXCEPT ![o] = NextWorker]
    /\ wstate' = [wstate EXCEPT ![NextWorker] = "running"]
    /\ call' = Ret("thread(f)", o, "ok")
    /\ UNCHANGED <<guard, cnt, resvars, terminated, uaf, accvars>>

\* std::thread thread2 = std::move(thread1);
thread_move_effect(o, s) ==
    /\ kind' = [kind EXCEPT ![o] = "thread"]
    /\ thr' = [thr EXCEPT ![o] = thr[s], ![s] = 0]
    /\ call' = Ret("thread(thread&&)", o, "ok")
    /\ UNCHANGED <<guard, wvars, resvars, terminated, uaf, accvars>>

thread_move(o, s) ==
    /\ Idle /\ Free
    /\ kind[o] = "none"
    /\ kind[s] = "thread"
    /\ thread_move_effect(o, s)

\* A move assignment that overwrites the thread it is assigned to.
thread_assign_never_terminates(d) == FALSE

\* std::thread's move assignment calls std::terminate() when the thread
\* assigned to is joinable.
thread_assign_terminates(d) == joinable(d)

\* thread1 = std::move(thread3), or thread1 = std::thread(some_other_func)
\* (s = 0): the right-hand side is evaluated first.
thread_assign_effect(d, s) ==
    /\ wstate' = ArgLaunch(s)
    /\ IF thread_assign_terminates(d)
         THEN /\ terminated' = TRUE
              /\ call' = Ret("thread=", d, "terminate")
              /\ UNCHANGED <<objvars, cnt, resvars, uaf, accvars>>
         ELSE /\ thr' = [ArgTaken(s) EXCEPT ![d] = ArgWorker(s)]
              /\ call' = Ret("thread=", d, "ok")
              /\ UNCHANGED <<kind, guard, cnt, resvars, terminated, uaf, accvars>>

thread_assign(d, s) ==
    /\ Idle /\ Free
    /\ kind[d] = "thread" /\ kind[s] = "thread"
    /\ thread_assign_effect(d, s)

\* What t.join() does once the worker has finished (or at once when t is
\* not joinable: std::system_error, nothing changes).
JoinEffect(op, o) ==
    IF joinable(o)
      THEN /\ thr' = JoinedThr(o)
           /\ joins' = JoinedJoins(o)
           /\ call' = RetW(op, o, 0, thr[o])
           /\ UNCHANGED <<kind, guard, wvars, detaches, terminated, uaf, accvars>>
      ELSE /\ call' = Ret(op, o, "system_error")
           /\ UNCHANGED <<objvars, wvars, resvars, terminated, uaf, accvars>>

\* A detach() that leaves the thread joinable.
DetachEffectNothing(op, o) ==
    /\ call' = Ret(op, o, "ok")
    /\ UNCHANGED <<objvars, wvars, resvars, terminated, uaf, accvars>>

\* What t.detach() does: the worker runs on alone; not joinable:
\* std::system_error, nothing changes.
DetachEffect(op, o) ==
    IF joinable(o)
      THEN /\ thr' = [thr EXCEPT ![o] = 0]
           /\ detaches' = [detaches EXCEPT ![thr[o]] = @ + 1]
           /\ call' = RetW(op, o, 0, thr[o])
           /\ UNCHANGED <<kind, guard, wvars, joins, terminated, uaf, accvars>>
      ELSE /\ call' = Ret(op, o, "system_error")
           /\ UNCHANGED <<objvars, wvars, resvars, terminated, uaf, accvars>>

\* my_thread.join(): blocks until the worker's callable has returned.
thread_join(o) ==
    /\ Idle /\ Free
    /\ kind[o] = "thread"
    /\ IF joinable(o) /\ ~Finished(thr[o])
         THEN Block("thread.join", o, 0, 0) /\ UNCHANGED <<thr, wstate>>
         ELSE JoinEffect("thread.join", o)

thread_join_return(o) ==
    /\ ~terminated /\ Free
    /\ call.blocked /\ call.op = "thread.join" /\ call.o = o
    /\ Finished(thr[o])
    /\ JoinEffect("thread.join", o)

\* my_thread.detach();
thread_detach(o) ==
    /\ Idle /\ Free
    /\ kind[o] = "thread"
    /\ DetachEffect("thread.detach", o)

\* ~thread(): std::terminate() when the object is still joinable.  A guard
\* declared after the thread is destroyed before it.
thread_dtor(o) ==
    /\ Idle /\ Free
    /\ kind[o] = "thread" /\ ~guard[o]
    /\ IF joinable(o)
         THEN Terminate("~thread", o)
         ELSE /\ kind' = [kind EXCEPT ![o] = "none"]
              /\ call' = Ret("~thread", o, "ok")
              /\ UNCHANGED <<thr, guard, wvars, resvars, terminated, uaf, accvars>>

\* ------------------------------------------------------------ thread_guard
\* explicit thread_guard(std::thread &t_): keeps a reference to t_.
thread_guard(o) ==
    /\ Idle /\ Free
    /\ kind[o] = "thread" /\ ~guard[o]
    /\ guard' = [guard EXCEPT ![o] = TRUE]
    /\ call' = Ret("thread_guard", o, "ok")
    /\ UNCHANGED <<kind, thr, wvars, resvars, terminated, uaf, accvars>>

\* A guard whose destructor forgets the join.
thread_guard_never_joins(o) == FALSE

\* A guard whose destructor joins without asking joinable().
thread_guard_always_joins(o) == TRUE

\* ~thread_guard(): if (t.joinable())
thread_guard_joins(o) == joinable(o)

\* ~thread_guard() from the point where any wait is over.  A t.join() on a
\* thread that is not joinable throws out of the destructor: std::terminate().
thread_guard_dtor_effect(o) ==
    IF thread_guard_joins(o) /\ ~joinable(o)
      THEN Terminate("~thread_guard", o)
      ELSE /\ thr' = IF thread_guard_joins(o) THEN JoinedThr(o) ELSE thr
           /\ joins' = IF thread_guard_joins(o) THEN JoinedJoins(o) ELSE joins
           /\ guard' = [guard EXCEPT ![o] = FALSE]
           /\ call' = RetW("~thread_guard", o, 0,
                           IF thread_guard_joins(o) THEN thr[o] ELSE 0)
           /\ UNCHANGED <<kind, wvars, detaches, terminated, uaf, accvars>>

thread_guard_dtor(o) ==
    /\ Idle /\ Free
    /\ guard[o]
    /\ IF thread_guard_joins(o) /\ joinable(o) /\ ~Finished(thr[o])
         THEN Block("~thread_guard", o, 0, 0) /\ UNCHANGED <<thr, wstate>>
         ELSE thread_guard_dtor_effect(o)

thread_guard_dtor_return(o) ==
    /\ ~terminated /\ Free
    /\ call.blocked /\ call.op = "~thread_guard" /\ call.o = o
    /\ Finished(thr[o])
    /\ thread_guard_dtor_effect(o)

\* ----------------------------------------------------------- scoped_thread
\* A constructor without the check.
scoped_thread_accepts_all(w) == FALSE

\* scoped_thread(std::thread t_): if (!t.joinable()) throw std::logic_error
scoped_thread_rejects(w) == w = 0

\* explicit scoped_thread(std::thread t_) : t(std::move(t_)).  When the
\* constructor throws, no object exists; its member t is destroyed.
scoped_thread_ctor_effect(o, s) ==
    /\ wstate' = ArgLaunch(s)
    /\ IF scoped_thread_rejects(ArgWorker(s))
         THEN IF ArgWorker(s) # 0
                THEN \* ~thread() of a joinable member while unwinding
                     /\ terminated' = TRUE
                     /\ call' = Ret("scoped_thread", o, "terminate")
                     /\ UNCHANGED <<objvars, cnt, resvars, uaf, accvars>>
                ELSE /\ thr' = ArgTaken(s)
                     /\ call' = Ret("scoped_thread", o, "logic_error")
                     /\ UNCHANGED <<kind, guard, cnt, resvars, terminated, uaf, accvars>>
         ELSE /\ kind' = [kind EXCEPT ![o] = "scoped_thread"]
              /\ thr' = [ArgTaken(s) EXCEPT ![o] = ArgWorker(s)]
              /\ call' = Ret("scoped_thread", o, "ok")
              /\ UNCHANGED <<guard, cnt, resvars, terminated, uaf, accvars>>

scoped_thread(o, s) ==
    /\ Idle /\ Free
    /\ kind[o] = "none"
    /\ s \in ThreadArgs /\ ArgOk(s)
    /\ scoped_thread_ctor_effect(o, s)

\* ~scoped_thread(): t.join(), unconditionally; then the member t is destroyed.
scoped_thread_dtor_effect(o) ==
    IF joinable(o)
      THEN /\ thr' = JoinedThr(o)
           /\ joins' = JoinedJoins(o)
           /\ kind' = [kind EXCEPT ![o] = "none"]
           /\ call' = RetW("~scoped_thread", o, 0, thr[o])
           /\ UNCHANGED <<guard, wvars, detaches, terminated, uaf, accvars>>
      ELSE Terminate("~scoped_thread", o)

scoped_thread_dtor(o) ==
    /\ Idle /\ Free
    /\ kind[o] = "scoped_thread"
    /\ IF joinable(o) /\ ~Finished(thr[o])
         THEN Block("~scoped_thread", o, 0, 0) /\ UNCHANGED <<thr, wstate>>
         ELSE scoped_thread_dtor_effect(o)

scoped_thread_dtor_return(o) ==
    /\ ~terminated /\ Free
    /\ call.blocked /\ call.op = "~scoped_thread" /\ call.o = o
    /\ Finished(thr[o])
    /\ scoped_thread_dtor_effect(o)

\* ---------------------------------------------------------- joining_thread
\* joining_thread() noexcept = default;
joining_thread_default(o) ==
    /\ Idle /\ Free
    /\ kind[o] = "none"
    /\ kind' = [kind EXCEPT ![o] = "joining_thread"]
    /\ call' = Ret("joining_thread()", o, "ok")
    /\ UNCHANGED <<thr, guard, wvars, resvars, terminated, uaf, accvars>>

\* explicit joining_thread(Callable&& func, Args&&... args): t(func, args...)
joining_thread_launch(o) ==
    /\ Idle /\ Free
    /\ kind[o] = "none"
    /\ HasUnborn
    /\ kind' = [kind EXCEPT ![o] = "joining_thread"]
    /\ thr' = [thr EXCEPT ![o] = NextWorker]
    /\ wstate' = [wstate EXCEPT ![NextWorker] = "running"]
    /\ call' = Ret("joining_thread(f)", o, "ok")
    /\ UNCHANGED <<guard, cnt, resvars, terminated, uaf, accvars>>

\* explicit joining_thread(std::thread t_) noexcept : t(std::move(t_)) {}
\* Whether the constructor refuses the worker w it is given: it never does.
joining_thread_rejects(w) == FALSE

joining_thread_adopt(o, s) ==
    /\ Idle /\ Free
    /\ kind[o] = "none"
    /\ s \in ThreadArgs /\ ArgOk(s)
    /\ wstate' = ArgLaunch(s)
    /\ IF joining_thread_rejects(ArgWorker(s))
         THEN \* an exception leaving a noexcept constructor
              /\ terminated' = TRUE
              /\ call' = Ret("joining_thread(thread)", o, "terminate")
              /\ UNCHANGED <<objvars, cnt, resvars, uaf, accvars>>
         ELSE /\ kind' = [kind EXCEPT ![o] = "joining_thread"]
              /\ thr' = [ArgTaken(s) EXCEPT ![o] = ArgWorker(s)]
              /\ call' = Ret("joining_thread(thread)", o, "ok")
              /\ UNCHANGED <<guard, cnt, resvars, terminated, uaf, accvars>>

\* joining_thread(joining_thread&& other) noexcept : t(std::move(other.t)) {}
\* A move constructor that copies: the source keeps its worker.
joining_thread_move_copies(o, s) == [thr EXCEPT ![o] = thr[s]]

\* The threads after t(std::move(other.t)).
joining_thread_move_thr(o, s) == [thr EXCEPT ![o] = thr[s], ![s] = 0]

joining_thread_move(o, s) ==
    /\ Idle /\ Free
    /\ kind[o] = "none"
    /\ kind[s] = "joining_thread"
    /\ kind' = [kind EXCEPT ![o] = "joining_thread"]
    /\ thr' = joining_thread_move_thr(o, s)
    /\ call' = RetW("joining_thread(joining_thread&&)", o, s, 0)
    /\ UNCHANGED <<guard, wvars, resvars, terminated, uaf, accvars>>

\* An operator= that assigns without joining first.
joining_thread_assign_never_joins(d) == FALSE

\* operator=: if (joinable()) join();
joining_thread_assign_joins(d) == joinable(d)

\* The two operator= from the point where any wait is over; w is the worker
\* moved in, s the joining_thread it comes from (0: a std::thread parameter)
\* and base the threads once the argument has been taken.  join() on a
\* thread that is not joinable throws out of the noexcept function, and
\* std::thread's operator= on a joinable thread calls std::terminate().
joining_thread_assign_effect(op, d, s, w, base) ==
    LET j == joining_thread_assign_joins(d)
        thr1 == IF j THEN [base EXCEPT ![d] = 0] ELSE base
        w1 == IF s # 0 THEN thr1[s] ELSE w
    IN  IF (j /\ ~joinable(d)) \/ thr1[d] # 0
          THEN /\ terminated' = TRUE
               /\ call' = Ret(op, d, "terminate")
               /\ UNCHANGED <<objvars, cnt, resvars, uaf, accvars>>
          ELSE /\ joins' = IF j THEN JoinedJoins(d) ELSE joins
               /\ thr' = IF s # 0 THEN [thr1 EXCEPT ![d] = w1, ![s] = 0]
                                  ELSE [thr1 EXCEPT ![d] = w1]
               /\ call' = RetW(op, d, s, IF j THEN thr[d] ELSE 0)
               /\ UNCHANGED <<kind, guard, cnt, detaches, terminated, uaf, accvars>>

\* joining_thread& operator=(joining_thread&& other) noexcept
joining_thread_assign(d, s) ==
    /\ Idle /\ Free
    /\ kind[d] = "joining_thread" /\ kind[s] = "joining_thread"
    /\ IF joining_thread_assign_joins(d) /\ joinable(d) /\ ~Finished(thr[d])
         THEN Block("joining_thread=", d, 0, s) /\ UNCHANGED <<thr, wstate>>
         ELSE joining_thread_assign_effect("joining_thread=", d, s, 0, thr)
              /\ UNCHANGED wstate

joining_thread_assign_return(d) ==
    /\ ~terminated /\ Free
    /\ call.blocked /\ call.op = "joining_thread=" /\ call.o = d
    /\ Finished(thr[d])
    /\ joining_thread_assign_effect("joining_thread=", d, call.src, 0, thr)
    /\ UNCHANGED wstate

\* joining_thread& operator=(std::thread other) noexcept: the parameter is
\* constructed (moved from the argument) before the body runs.
joining_thread_assign_thread(d, s) ==
    /\ Idle /\ Free
    /\ kind[d] = "joining_thread"
    /\ s \in ThreadArgs /\ ArgOk(s)
    /\ wstate' = ArgLaunch(s)
    /\ IF joining_thread_assign_joins(d) /\ joinable(d) /\ ~Finished(thr[d])
         THEN /\ call' = Blocked("joining_thread=thread", d, ArgWorker(s), 0)
              /\ thr' = ArgTaken(s)
              /\ UNCHANGED <<kind, guard, cnt, resvars, terminated, uaf, accvars>>
         ELSE joining_thread_assign_effect("joining_thread=thread", d, 0, ArgWorker(s),
                                           ArgTaken(s))

joining_thread_assign_thread_return(d) ==
    /\ ~terminated /\ Free
    /\ call.blocked /\ call.op = "joining_thread=thread" /\ call.o = d
    /\ Finished(thr[d])
    /\ joining_thread_assign_effect("joining_thread=thread", d, 0, call.other, thr)
    /\ UNCHANGED wstate

\* A destructor that forgets the join.
joining_thread_dtor_never_joins(o) == FALSE

\* ~joining_thread(): if (joinable())
joining_thread_dtor_joins(o) == joinable(o)

\* ~joining_thread() noexcept from the point where any wait is over; then the
\* member t is destroyed, which calls std::terminate() if it is joinable.
joining_thread_dtor_effect(o) ==
    LET j == joining_thread_dtor_joins(o)
        thr1 == IF j THEN JoinedThr(o) ELSE thr
    IN  IF (j /\ ~joinable(o)) \/ thr1[o] # 0
          THEN Terminate("~joining_thread", o)
          ELSE /\ joins' = IF j THEN JoinedJoins(o) ELSE joins
               /\ thr' = thr1
               /\ kind' = [kind EXCEPT ![o] = "none"]
               /\ call' = RetW("~joining_thread", o, 0, IF j THEN thr[o] ELSE 0)
               /\ UNCHANGED <<guard, wvars, detaches, terminated, uaf, accvars>>

joining_thread_dtor(o) ==
    /\ Idle /\ Free
    /\ kind[o] = "joining_thread"
    /\ IF joining_thread_dtor_joins(o) /\ joinable(o) /\ ~Finished(thr[o])
         THEN Block("~joining_thread", o, 0, 0) /\ UNCHANGED <<thr, wstate>>
         ELSE joining_thread_dtor_effect(o)

joining_thread_dtor_return(o) ==
    /\ ~terminated /\ Free
    /\ call.blocked /\ call.op = "~joining_thread" /\ call.o = o
    /\ Finished(thr[o])
    /\ joining_thread_dtor_effect(o)

\* void swap(joining_thread &other) noexcept { t.swap(other.t); }
swap(a, b) ==
    /\ Idle /\ Free
    /\ kind[a] = "joining_thread" /\ kind[b] = "joining_thread"
    /\ a # b
    /\ thr' = [thr EXCEPT ![a] = thr[b], ![b] = thr[a]]
    /\ call' = Ret("swap", a, "ok")
    /\ UNCHANGED <<kind, guard, wvars, resvars, terminated, uaf, accvars>>

\* A join() that returns without waiting for the worker.
join_never_waits(o) == FALSE

\* A join() that silently ignores a handle without a worker.
join_effect_unchecked(o) ==
    IF joinable(o)
      THEN JoinEffect("join", o)
      ELSE /\ call' = Ret("join", o, "ok")
           /\ UNCHANGED <<objvars, wvars, resvars, terminated, uaf, accvars>>

\* void join() { t.join(); }: the caller waits while the worker of t runs.
join_waits(o) == joinable(o) /\ ~Finished(thr[o])
join_effect(o) == JoinEffect("join", o)

join(o) ==
    /\ Idle /\ Free
    /\ kind[o] = "joining_thread"
    /\ IF join_waits(o)
         THEN Block("join", o, 0, 0) /\ UNCHANGED <<thr, wstate>>
         ELSE join_effect(o)

join_return(o) ==
    /\ ~terminated /\ Free
    /\ call.blocked /\ call.op = "join" /\ call.o = o
    /\ Finished(thr[o])
    /\ join_effect(o)

\* A detach() that does nothing.
detach_effect_nothing(o) ==
    /\ call' = Ret("detach", o, "ok")
    /\ UNCHANGED <<objvars, wvars, resvars, terminated, uaf, accvars>>

\* void detach() { t.detach(); }
detach_effect(o) == DetachEffect("detach", o)

detach(o) ==
    /\ Idle /\ Free
    /\ kind[o] = "joining_thread"
    /\ detach_effect(o)

\* ------------------------------------------------------- f2, f, f, oops
\* The functions use slot 1 for their std::thread / scoped_thread.  An
\* exception thrown by do_something_in_current_thread() leaves the function
\* and unwinds its locals in reverse order of construction.
Outcomes == {"none", "std::exception", "other"}

\* int some_local_state = 0; func my_func(some_local_state);
locals(here, next) ==
    /\ ~terminated /\ pc = here
    /\ local' = "alive"
    /\ pc' = next
    /\ UNCHANGED <<objvars, wvars, resvars, call, terminated, exc, uaf, accvars>>

\* std::thread t(my_func);
launch(here, next) ==
    /\ ~terminated /\ pc = here
    /\ kind' = [kind EXCEPT ![1] = "thread"]
    /\ thr' = [thr EXCEPT ![1] = NextWorker]
    /\ wstate' = [wstate EXCEPT ![NextWorker] = "running"]
    /\ call' = Ret("thread(f)", 1, "ok")
    /\ pc' = next
    /\ UNCHANGED <<guard, cnt, resvars, terminated, local, exc, uaf, accvars>>

\* do_something_in_current_thread(); returns or throws
do_something_in_current_thread(here, next) ==
    /\ ~terminated /\ pc = here
    /\ \E e \in Outcomes : exc' = e
    /\ pc' = next
    /\ UNCHANGED <<objvars, wvars, resvars, call, terminated, local, uaf, accvars>>

\* ~thread() at the end of the scope
thread_dtor_at(here, next) ==
    /\ ~terminated /\ pc = here
    /\ IF joinable(1)
         THEN Terminate("~thread", 1)
         ELSE /\ kind' = [kind EXCEPT ![1] = "none"]
              /\ call' = Ret("~thread", 1, "ok")
              /\ UNCHANGED <<thr, guard, wvars, resvars, terminated, uaf, accvars>>
    /\ pc' = next
    /\ UNCHANGED <<local, exc>>

\* the end of some_local_state's lifetime; the function is left
locals_dtor(here, next) ==
    /\ ~terminated /\ pc = here
    /\ local' = "dead"
    /\ pc' = next
    /\ UNCHANGED <<objvars, wvars, resvars, call, terminated, exc, uaf, accvars>>

\* void f2()
f2_locals == locals("f2", "f2:thread")
f2_thread == launch("f2:thread", "f2:guard")
f2_guard ==
    /\ ~terminated /\ pc = "f2:guard"
    /\ guard' = [guard EXCEPT ![1] = TRUE]
    /\ call' = Ret("thread_guard", 1, "ok")
    /\ pc' = "f2:work"
    /\ UNCHANGED <<kind, thr, wvars, resvars, terminated, local, exc, uaf, accvars>>
f2_work == do_something_in_current_thread("f2:work", "f2:~guard")
f2_guard_dtor ==
    /\ ~terminated /\ pc = "f2:~guard"
    /\ (thread_guard_joins(1) /\ joinable(1)) => Finished(thr[1])
    /\ thread_guard_dtor_effect(1)
    /\ pc' = "f2:~thread"
    /\ UNCHANGED <<local, exc>>
f2_thread_dtor == thread_dtor_at("f2:~thread", "f2:~locals")
f2_locals_dtor == locals_dtor("f2:~locals", "f2:left")

\* void f() with a scoped_thread
f_scoped_locals == locals("f", "f:scoped_thread")
f_scoped_thread ==
    /\ ~terminated /\ pc = "f:scoped_thread"
    /\ scoped_thread_ctor_effect(1, 0)
    /\ pc' = "f:work"
    /\ UNCHANGED <<local, exc>>
f_scoped_work == do_something_in_current_thread("f:work", "f:~scoped_thread")
f_scoped_dtor ==
    /\ ~terminated /\ pc = "f:~scoped_thread"
    /\ joinable(1) => Finished(thr[1])
    /\ scoped_thread_dtor_effect(1)
    /\ pc' = "f:~locals"
    /\ UNCHANGED <<local, exc>>
f_scoped_locals_dtor == locals_dtor("f:~locals", "f:left")

\* void f() with try / catch
f_try_locals == locals("f_try", "f_try:thread")
f_try_thread == launch("f_try:thread", "f_try:work")
\* try { do_something_in_current_thread(); } catch (const std::exception &e):
\* only a std::exception enters the handler.
f_try_work ==
    /\ ~terminated /\ pc = "f_try:work"
    /\ \E e \in Outcomes :
         /\ exc' = e
         /\ pc' = CASE e = "none" -> "f_try:join"
                    [] e = "std::exception" -> "f_try:catch"
                    [] OTHER -> "f_try:~thread"
    /\ UNCHANGED <<objvars, wvars, resvars, call, terminated, local, uaf, accvars>>
\* t.join(); (after the try block, or in the handler before throw e;)
f_try_join ==
    /\ ~terminated /\ pc \in {"f_try:join", "f_try:catch"}
    /\ joinable(1) => Finished(thr[1])
    /\ JoinEffect("thread.join", 1)
    /\ pc' = "f_try:~thread"
    /\ UNCHANGED <<local, exc>>
f_try_thread_dtor == thread_dtor_at("f_try:~thread", "f_try:~locals")
f_try_locals_dtor == locals_dtor("f_try:~locals", "f_try:left")

\* void oops()
oops_locals == locals("oops", "oops:thread")
oops_thread == launch("oops:thread", "oops:detach")
oops_detach ==
    /\ ~terminated /\ pc = "oops:detach"
    /\ DetachEffect("thread.detach", 1)
    /\ pc' = "oops:~thread"
    /\ UNCHANGED <<local, exc>>
oops_thread_dtor == thread_dtor_at("oops:~thread", "oops:~locals")
oops_locals_dtor == locals_dtor("oops:~locals", "oops:left")

\* std::thread thread1, thread2, thread3 of section 2.3, and the workers
\* running some_func and some_other_func (numbered in the order of launch).
thread1 == 1
thread2 == 2
thread3 == 3
some_func == 1
some_other_func == 2
ScopeObj == {thread1, thread2, thread3}

\* std::thread thread1(some_func);
transfer_thread1 == launch("transfer", "transfer:2")
\* std::thread thread2 = std::move(thread1);
transfer_thread2 ==
    /\ ~terminated /\ pc = "transfer:2"
    /\ thread_move_effect(thread2, thread1)
    /\ pc' = "transfer:3"
    /\ UNCHANGED <<local, exc>>
\* thread1 = std::thread(some_other_func);
transfer_assign_thread1 ==
    /\ ~terminated /\ pc = "transfer:3"
    /\ thread_assign_effect(thread1, 0)
    /\ pc' = "transfer:4"
    /\ UNCHANGED <<local, exc>>
\* std::thread thread3;
transfer_thread3 ==
    /\ ~terminated /\ pc = "transfer:4"
    /\ thread_default_effect(thread3)
    /\ pc' = "transfer:5"
    /\ UNCHANGED <<local, exc>>
\* thread3 = std::move(thread2);
transfer_assign_thread3 ==
    /\ ~terminated /\ pc = "transfer:5"
    /\ thread_assign_effect(thread3, thread2)
    /\ pc' = "transfer:6"
    /\ UNCHANGED <<local, exc>>
\* thread1 = std::move(thread3);
transfer_assign_thread1_again ==
    /\ ~terminated /\ pc = "transfer:6"
    /\ thread_assign_effect(thread1, thread3)
    /\ pc' = "transfer:end"
    /\ UNCHANGED <<local, exc>>

\* ----------------------------------------------------------------- worker
\* func::operator(): one iteration of the loop, do_something(i).
WorkerStep(w) ==
    /\ ~terminated
    /\ wstate[w] = "running"
    /\ cnt[w] < Iterations
    /\ cnt' = [cnt EXCEPT ![w] = @ + 1]
    /\ uaf' = (uaf \/ local = "dead")
    /\ UNCHANGED <<objvars, wstate, resvars, call, terminated, scopevars, accvars>>

\* func::operator(): the loop is over, the callable returns.
WorkerReturn(w) ==
    /\ ~terminated
    /\ wstate[w] = "running"
    /\ cnt[w] = Iterations
    /\ wstate' = [wstate EXCEPT ![w] = "finished"]
    /\ UNCHANGED <<objvars, cnt, resvars, call, terminated, scopevars, uaf, accvars>>

\* ----------------------------------------------------- parallel_accumulate
\* The identifiers fist (line 396), num_thread (line 406) and result (line
\* 410) are read as first, num_threads and results, the names the other
\* lines of the function use.  Iterators are offsets from first; T is int.
\* unsigned long const min_per_thread = 25;
min_per_thread == 25

\* std::min
Min(a, b) == IF b < a THEN b ELSE a

\* unsigned long const length = std::distance(first, last);
length == Len(data)
\* (length + min_per_thread - 1) / min_per_thread
max_threads == (length + min_per_thread - 1) \div min_per_thread
\* std::min(hardware_threads != 0 ? hardware_threads : 2, max_threads)
num_threads ==
    Min(IF hardware_threads # 0 THEN hardware_threads ELSE 2, max_threads)
\* length / num_threads
block_size == length \div num_threads

\* std::accumulate(first, last, value) over the elements of seq, which are
\* seq[first + 1], ..., seq[last].
RECURSIVE accumulate(_, _, _, _)
accumulate(seq, first, last, value) ==
    IF first = last
      THEN value
      ELSE accumulate(seq, first + 1, last, value + seq[first + 1])

\* An element of std::vector<std::thread> threads(num_threads - 1): a thread
\* that is not joinable.  A launched one carries its worker: the arguments
\* bound to accumulate_block (first, last, and ref: the index of the element
\* of results it refers to), how far the worker is, and the sum it computed.
EmptyThread ==
    [joinable |-> FALSE, worker |-> "none", first |-> 0, last |-> 0, ref |-> 0,
     value |-> 0, joins |-> 0]

\* What the thread model looks like to parallel_accumulate: untouched.
ownervars == <<kind, thr, guard, wstate, cnt, joins, detaches, call, local, exc, uaf>>
inputvars == <<data, init, hardware_threads>>

\* if (!length) return init;  otherwise the vectors and block_start are set
\* up: results holds num_threads value-initialised T, threads holds
\* num_threads - 1 empty threads.
parallel_accumulate ==
    /\ ~terminated /\ pc = "parallel_accumulate"
    /\ IF length = 0
         THEN /\ retval' = <<init>>
              /\ pc' = "parallel_accumulate:returned"
              /\ UNCHANGED <<results, threads, writers, block_start, i, entry>>
         ELSE /\ results' = [k \in 1..num_threads |-> 0]
              /\ threads' = [k \in 1..(num_threads - 1) |-> EmptyThread]
              /\ writers' = [k \in 1..num_threads |-> {}]
              /\ block_start' = 0
              /\ i' = 0
              /\ pc' = "parallel_accumulate:for"
              /\ UNCHANGED <<retval, entry>>
    /\ UNCHANGED <<ownervars, inputvars, terminated>>

\* One iteration of the launching loop: threads[i] = std::thread(
\* accumulate_block(), block_start, block_end, std::ref(results[i])).
\* threads[i] is an empty thread, so the move assignment is a plain move.
launch_block ==
    /\ ~terminated /\ pc = "parallel_accumulate:for"
    /\ i < num_threads - 1
    /\ LET block_end == block_start + block_size
       IN  /\ threads' = [threads EXCEPT ![i + 1] =
                            [joinable |-> TRUE, worker |-> "running",
                             first |-> block_start, last |-> block_end,
                             ref |-> i + 1, value |-> 0, joins |-> 0]]
           /\ block_start' = block_end
    /\ i' = i + 1
    /\ UNCHANGED <<ownervars, inputvars, terminated, pc, entry, results, writers, retval>>

\* accumulate_block()(block_start, last, results[num_threads - 1]): the
\* calling thread sums the final block; then the joining loop begins.
final_block ==
    /\ ~terminated /\ pc = "parallel_accumulate:for"
    /\ ~(i < num_threads - 1)
    /\ results' = [results EXCEPT ![num_threads] =
                      accumulate(data, block_start, length, results[num_threads])]
    /\ writers' = [writers EXCEPT ![num_threads] = @ \cup {0}]
    /\ entry' = 1
    /\ pc' = "parallel_accumulate:join"
    /\ UNCHANGED <<ownervars, inputvars, terminated, block_start, i, threads, retval>>

\* An entry.join() that returns while the worker is still at work.
entry_join_never_waits(k) == FALSE

\* entry.join() blocks until the worker's callable has returned.
entry_join_waits(k) == threads[k].joinable /\ threads[k].worker # "finished"

\* for (auto &entry : threads) entry.join();
entry_join ==
    /\ ~terminated /\ pc = "parallel_accumulate:join"
    /\ entry <= Len(threads)
    /\ threads[entry].joinable
    /\ ~entry_join_waits(entry)
    /\ threads' = [threads EXCEPT ![entry].joinable = FALSE, ![entry].joins = @ + 1]
    /\ entry' = entry + 1
    /\ UNCHANGED <<ownervars, inputvars, terminated, pc, block_start, i, results, writers,
                   retval>>

\* A reduction that forgets init.
returned_value_without_init == accumulate(results, 0, Len(results), 0)

\* std::accumulate(results.begin(), results.end(), init)
returned_value == accumulate(results, 0, Len(results), init)

\* return std::accumulate(...); then threads is destroyed: ~thread() of a
\* joinable element calls std::terminate().
return_accumulate ==
    /\ ~terminated /\ pc = "parallel_accumulate:join"
    /\ ~(entry <= Len(threads))
    /\ IF \E k \in DOMAIN threads : threads[k].joinable
         THEN terminated' = TRUE /\ UNCHANGED retval
         ELSE retval' = <<returned_value>> /\ UNCHANGED terminated
    /\ pc' = "parallel_accumulate:returned"
    /\ UNCHANGED <<ownervars, inputvars, block_start, i, entry, results, threads, writers>>

\* accumulate_block::operator() of worker k: the right-hand side
\* std::accumulate(first, last, result) is evaluated (result is read).
accumulate_block_sum(k) ==
    /\ ~terminated
    /\ threads[k].worker = "running"
    /\ threads' = [threads EXCEPT
                     ![k].value = accumulate(data, threads[k].first, threads[k].last,
                                             results[threads[k].ref]),
                     ![k].worker = "summed"]
    /\ UNCHANGED <<ownervars, inputvars, terminated, pc, block_start, i, entry, results,
                   writers, retval>>

\* result = ...: the sum is stored through the reference to results[i].
accumulate_block_assign(k) ==
    /\ ~terminated
    /\ threads[k].worker = "summed"
    /\ results' = [results EXCEPT ![threads[k].ref] = threads[k].value]
    /\ writers' = [writers EXCEPT ![threads[k].ref] = @ \cup {k}]
    /\ threads' = [threads EXCEPT ![k].worker = "assigned"]
    /\ UNCHANGED <<ownervars, inputvars, terminated, pc, block_start, i, entry, retval>>

\* accumulate_block::operator() returns: the worker has finished.
accumulate_block_return(k) ==
    /\ ~terminated
    /\ threads[k].worker = "assigned"
    /\ threads' = [threads EXCEPT ![k].worker = "finished"]
    /\ UNCHANGED <<ownervars, inputvars, terminated, pc, block_start, i, entry, results,
                   writers, retval>>

\* parallel_accumulate is not being called.
NotAccumulating ==
    /\ data = <<>> /\ init = 0 /\ hardware_threads = 0
    /\ block_start = 0 /\ i = 0 /\ entry = 0
    /\ results = <<>> /\ threads = <<>> /\ writers = <<>> /\ retval = <<>>

\* The ranges parallel_accumulate is called with: n elements in -1..1.
Range(n, p) == [k \in 1..n |-> ((k * (p + 1)) % 3) - 1]

\* ------------------------------------------------------------------- specs
\* Nothing constructed, nothing launched.
Init ==
    /\ kind = [o \in Obj |-> "none"]
    /\ thr = [o \in Obj |-> 0]
    /\ guard = [o \in Obj |-> FALSE]
    /\ wstate = [w \in Workers |-> "unborn"]
    /\ cnt = [w \in Workers |-> 0]
    /\ joins = [w \in Workers |-> 0]
    /\ detaches = [w \in Workers |-> 0]
    /\ call = Ret("none", 0, "ok")
    /\ terminated = FALSE
    /\ pc = "free"
    /\ local = "none"
    /\ exc = "none"
    /\ uaf = FALSE
    /\ NotAccumulating

Next ==
    \/ \E w \in Workers : WorkerStep(w)
    \/ \E w \in Workers : WorkerReturn(w)
    \/ \E o \in Obj : thread_default(o)
    \/ \E o \in Obj : thread_launch(o)
    \/ \E o, s \in Obj : thread_move(o, s)
    \/ \E d, s \in Obj : thread_assign(d, s)
    \/ \E o \in Obj : thread_join(o)
    \/ \E o \in Obj : thread_join_return(o)
    \/ \E o \in Obj : thread_detach(o)
    \/ \E o \in Obj : thread_dtor(o)
    \/ \E o \in Obj : thread_guard(o)
    \/ \E o \in Obj : thread_guard_dtor(o)
    \/ \E o \in Obj : thread_guard_dtor_return(o)
    \/ \E o \in Obj, s \in Obj \cup {0} : scoped_thread(o, s)
    \/ \E o \in Obj : scoped_thread_dtor(o)
    \/ \E o \in Obj : scoped_thread_dtor_return(o)
    \/ \E o \in Obj : joining_thread_default(o)
    \/ \E o \in Obj : joining_thread_launch(o)
    \/ \E o \in Obj, s \in Obj \cup {0} : joining_thread_adopt(o, s)
    \/ \E o, s \in Obj : joining_thread_move(o, s)
    \/ \E d, s \in Obj : joining_thread_assign(d, s)
    \/ \E d \in Obj : joining_thread_assign_return(d)
    \/ \E d \in Obj, s \in Obj \cup {0} : joining_thread_assign_thread(d, s)
    \/ \E d \in Obj : joining_thread_assign_thread_return(d)
    \/ \E o \in Obj : joining_thread_dtor(o)
    \/ \E o \in Obj : joining_thread_dtor_return(o)
    \/ \E a, b \in Obj : swap(a, b)
    \/ \E o \in Obj : join(o)
    \/ \E o \in Obj : join_return(o)
    \/ \E o \in Obj : detach(o)

Spec == Init /\ [][Next]_vars

\* One of the functions f2, f (scoped_thread), f (try/catch), oops is called,
\* or the statements of section 2.3 are executed.
InitScope ==
    /\ kind = [o \in ScopeObj |-> "none"]
    /\ thr = [o \in ScopeObj |-> 0]
    /\ guard = [o \in ScopeObj |-> FALSE]
    /\ wstate = [w \in Workers |-> "unborn"]
    /\ cnt = [w \in Workers |-> 0]
    /\ joins = [w \in Workers |-> 0]
    /\ detaches = [w \in Workers |-> 0]
    /\ call = Ret("none", 0, "ok")
    /\ terminated = FALSE
    /\ pc \in {"f2", "f", "f_try", "oops", "transfer"}
    /\ local = "none"
    /\ exc = "none"
    /\ uaf = FALSE
    /\ NotAccumulating

NextScope ==
    \/ \E w \in Workers : WorkerStep(w)
    \/ \E w \in Workers : WorkerReturn(w)
    \/ f2_locals \/ f2_thread \/ f2_guard \/ f2_work
    \/ f2_guard_dtor \/ f2_thread_dtor \/ f2_locals_dtor
    \/ f_scoped_locals \/ f_scoped_thread \/ f_scoped_work
    \/ f_scoped_dtor \/ f_scoped_locals_dtor
    \/ f_try_locals \/ f_try_thread \/ f_try_work \/ f_try_join
    \/ f_try_thread_dtor \/ f_try_locals_dtor
    \/ oops_locals \/ oops_thread \/ oops_detach
    \/ oops_thread_dtor \/ oops_locals_dtor
    \/ transfer_thread1 \/ transfer_thread2 \/ transfer_assign_thread1
    \/ transfer_thread3 \/ transfer_assign_thread3
    \/ transfer_assign_thread1_again

SpecScope == InitScope /\ [][NextScope]_vars

\* The worker steps are as likely to be scheduled as any other thread's.
FairSpec ==
    Spec /\ \A w \in Workers : WF_vars(WorkerStep(w)) /\ WF_vars(WorkerReturn(w))

FairSpecScope ==
    SpecScope /\ \A w \in Workers : WF_vars(WorkerStep(w)) /\ WF_vars(WorkerReturn(w))

\* parallel_accumulate(first, last, init) is called, on a machine whose
\* hardware_concurrency() is hardware_threads.
InitAccumulate ==
    /\ kind = [o \in Obj |-> "none"]
    /\ thr = [o \in Obj |-> 0]
    /\ guard = [o \in Obj |-> FALSE]
    /\ wstate = [w \in Workers |-> "unborn"]
    /\ cnt = [w \in Workers |-> 0]
    /\ joins = [w \in Workers |-> 0]
    /\ detaches = [w \in Workers |-> 0]
    /\ call = Ret("none", 0, "ok")
    /\ terminated = FALSE
    /\ pc = "parallel_accumulate"
    /\ local = "none"
    /\ exc = "none"
    /\ uaf = FALSE
    /\ \E n \in 0..MaxLength, p \in 0..MaxPattern : data = Range(n, p)
    /\ init \in 0..MaxInit
    /\ hardware_threads \in 0..MaxHardwareThreads
    /\ block_start = 0 /\ i = 0 /\ entry = 0
    /\ results = <<>> /\ threads = <<>> /\ writers = <<>> /\ retval = <<>>

NextAccumulate ==
    \/ parallel_accumulate
    \/ launch_block
    \/ final_block
    \/ entry_join
    \/ return_accumulate
    \/ \E k \in DOMAIN threads : accumulate_block_sum(k)
    \/ \E k \in DOMAIN threads : accumulate_block_assign(k)
    \/ \E k \in DOMAIN threads : accumulate_block_return(k)

SpecAccumulate == InitAccumulate /\ [][NextAccumulate]_vars

\* ------------------------------------------------------------------ claims
\* A step of the owner (a worker's step changes only cnt, wstate and uaf).
OwnerStep ==
    \/ call' # call
    \/ objvars' # objvars
    \/ resvars' # resvars
    \/ terminated' # terminated

\* The step on which a call of one of ops on object o ends.
Returns(ops, o) ==
    OwnerStep /\ call'.op \in ops /\ call'.o = o /\ ~call'.blocked

\* The objects and by-value parameters that represent worker w.
Owners(w) ==
    Cardinality({o \in Obj : thr[o] = w}) + (IF call.other = w THEN 1 ELSE 0)

Launched(w) == wstate[w] # "unborn"

HandleDtors == {"~thread_guard", "~scoped_thread", "~joining_thread"}
AssignOps == {"joining_thread=", "joining_thread=thread"}
AdoptOps == {"scoped_thread", "joining_thread(thread)"}
NonWaitingOps ==
    {"thread()", "thread(f)", "thread(thread&&)", "thread_guard", "scoped_thread",
     "joining_thread()", "joining_thread(f)", "joining_thread(thread)",
     "joining_thread(joining_thread&&)", "detach", "thread.detach", "swap"}

\* C1: when the destructor of a thread_guard, scoped_thread or joining_thread
\* ends and the handle's thread was still joinable when it ran (no join() or
\* detach() took the worker before), the worker's callable has returned with
\* all its writes done, the worker has been joined exactly once, and the
\* destructor has not terminated the process.
C1_JoinOnScopeExit ==
    [][\A o \in Obj :
          (Returns(HandleDtors, o) /\ joinable(o)) =>
              /\ call'.err = "ok"
              /\ Finished(thr[o])
              /\ cnt[thr[o]] = Iterations
              /\ joins'[thr[o]] = 1 /\ detaches'[thr[o]] = 0
              /\ thr'[o] = 0]_vars

C1_Witness ==
    /\ call.op = "~joining_thread" /\ call.err = "ok"
    /\ call.w # 0 /\ joins[call.w] = 1 /\ Finished(call.w)

\* C2: every launched worker is, in every state, either represented by
\* exactly one std::thread (a handle's or a parameter's) and unresolved, or
\* represented by none and resolved exactly once (joined or detached); a
\* worker not yet launched is represented by none; and after a move
\* construction or move assignment the moved-from joining_thread owns no
\* worker.
C2_ExactlyOnceOwnership ==
    /\ \A w \in Workers :
          IF Launched(w)
            THEN Owners(w) + joins[w] + detaches[w] = 1
            ELSE Owners(w) = 0 /\ joins[w] = 0 /\ detaches[w] = 0
    /\ (/\ call.op \in {"joining_thread(joining_thread&&)", "joining_thread="}
        /\ ~call.blocked /\ call.err = "ok")
          => thr[call.src] = 0

C2_Witness ==
    /\ call.op = "joining_thread=" /\ call.err = "ok"
    /\ call.src # call.o
    /\ thr[call.o] # 0 /\ call.w # 0

\* C3: in f2 (thread_guard) and in f (scoped_thread), once the guard or the
\* scoped_thread has been destroyed at the end of the scope, the worker has
\* finished and has been joined exactly once, whether
\* do_something_in_current_thread() returned or threw; and the process is
\* never terminated on the way.
GuardedScope ==
    {"f2", "f2:thread", "f2:guard", "f2:work", "f2:~guard", "f2:~thread",
     "f2:~locals", "f2:left",
     "f", "f:scoped_thread", "f:work", "f:~scoped_thread", "f:~locals", "f:left"}
AfterHandleDtor == {"f2:~thread", "f2:~locals", "f2:left", "f:~locals", "f:left"}

C3_ResolvedOnEveryExit ==
    /\ pc \in GuardedScope => ~terminated
    /\ pc \in AfterHandleDtor =>
          /\ Launched(1)
          /\ \A w \in Workers : Launched(w) => Finished(w) /\ joins[w] = 1

C3_Witness ==
    /\ pc = "f2:left" /\ exc = "other"
    /\ joins[1] = 1 /\ ~terminated

\* C4 as claimed: every adopting constructor given a std::thread that is not
\* joinable ends with an error and leaves no wrapper; so a wrapper that an
\* adopting constructor has just built owns a worker.
C4_Original ==
    call.op \in AdoptOps =>
        \/ call.err = "ok" /\ kind[call.o] # "none" /\ joinable(call.o)
        \/ call.err # "ok" /\ kind[call.o] = "none"

\* C4 amended: scoped_thread(std::thread) given a thread that is not joinable
\* throws std::logic_error and no scoped_thread exists afterwards, and a
\* scoped_thread it builds owns a worker; joining_thread(std::thread) never
\* fails: it builds a joining_thread, which owns no worker when the thread it
\* was given was not joinable.
C4_ScopedRejectsJoiningAccepts ==
    /\ call.op = "scoped_thread" =>
          \/ call.err = "ok" /\ kind[call.o] = "scoped_thread" /\ joinable(call.o)
          \/ call.err = "logic_error" /\ kind[call.o] = "none"
    /\ call.op = "joining_thread(thread)" =>
          call.err = "ok" /\ kind[call.o] = "joining_thread"

C4_Witness ==
    /\ call.op = "scoped_thread" /\ call.err = "logic_error"
    /\ kind[call.o] = "none"

\* C5: a join() or detach() on a joining_thread that owns no worker ends with
\* std::system_error and changes nothing: the handle still owns no worker,
\* and no worker is launched, joined or detached by the call.
C5_MisuseIsAnError ==
    [][\A o \in Obj :
          (Idle /\ ~joinable(o) /\ call' # call /\ Returns({"join", "detach"}, o)) =>
              /\ call'.err = "system_error"
              /\ UNCHANGED <<objvars, wvars, resvars, terminated>>]_vars

\* a second join() on a handle whose worker was joined before
C5_Witness ==
    /\ call.op = "join" /\ call.err = "system_error"
    /\ kind[call.o] = "joining_thread" /\ ~joinable(call.o)
    /\ \E w \in Workers : joins[w] = 1

\* C6: after a detach() that succeeded the handle is not joinable and the
\* worker is detached once; no std::thread represents a detached worker, so
\* destroying the handle neither waits nor changes any worker; and (workers
\* being scheduled fairly) the detached worker runs until its callable
\* returns, unless the process is terminated first.
C6_ReleaseDetaches ==
    /\ []((call.op = "detach" /\ call.err = "ok") =>
             (~joinable(call.o) /\ call.w # 0 /\ detaches[call.w] = 1))
    /\ [](\A w \in Workers : detaches[w] >= 1 => Owners(w) = 0 /\ joins[w] = 0)
    /\ [][\A o \in Obj :
             (Idle /\ ~joinable(o) /\ Returns({"~joining_thread"}, o)) =>
                 /\ call'.err = "ok"
                 /\ UNCHANGED <<wvars, resvars>>]_vars
    /\ \A w \in Workers : (detaches[w] >= 1) ~> (Finished(w) \/ terminated)

\* the handle is gone while its detached worker is still running
C6_Witness ==
    /\ call.op = "~joining_thread" /\ call.err = "ok" /\ call.w = 0
    /\ \A o \in Obj : kind[o] = "none"
    /\ \E w \in Workers : detaches[w] = 1 /\ wstate[w] = "running"

\* C7: when a move assignment (from a joining_thread or from a std::thread)
\* onto a joining_thread that owns a worker W ends, W's callable has returned,
\* W has been joined exactly once and is no longer owned by the destination,
\* and the process has not been terminated.
C7_JoinBeforeReassign ==
    [][\A d \in Obj :
          (Returns(AssignOps, d) /\ joinable(d)) =>
              /\ call'.err = "ok"
              /\ Finished(thr[d])
              /\ joins'[thr[d]] = 1 /\ detaches'[thr[d]] = 0
              /\ thr'[d] # thr[d]
              /\ ~terminated']_vars

\* W joined, and a new worker taken from a std::thread
C7_Witness ==
    /\ call.op = "joining_thread=thread" /\ call.err = "ok"
    /\ call.w # 0 /\ joins[call.w] = 1
    /\ joinable(call.o)

\* C8 as claimed: no move assignment ever waits for a worker.
C8_Original == ~(call.blocked /\ call.op \in AssignOps)

\* C8 amended: constructors, detach() and move construction end in the step
\* in which they are called, whatever the workers are doing; a move
\* assignment waits exactly when its destination owns a worker whose callable
\* has not returned yet (and then for that worker only).
C8_OnlyJoinsWait ==
    /\ [](call.blocked => call.op \notin NonWaitingOps)
    /\ [][\A o \in Obj :
             (Idle /\ OwnerStep /\ call'.o = o /\ call'.op \in AssignOps) =>
                 (call'.blocked <=> (joinable(o) /\ ~Finished(thr[o])))]_vars
    /\ [](call.blocked => joinable(call.o))

C8_Witness ==
    /\ call.blocked /\ call.op = "joining_thread="
    /\ wstate[thr[call.o]] = "running"

\* C9: when join() on a joining_thread that owns a worker ends, the worker's
\* callable has returned and all its writes are done, the worker has been
\* joined once and the handle owns no worker; and a joined worker never
\* writes again.
C9_HappensBeforeJoin ==
    /\ [][\A o \in Obj :
             (Returns({"join"}, o) /\ joinable(o)) =>
                 /\ call'.err = "ok"
                 /\ Finished(thr[o])
                 /\ cnt[thr[o]] = Iterations
                 /\ joins'[thr[o]] = 1
                 /\ thr'[o] = 0]_vars
    /\ [][\A w \in Workers :
             joins[w] >= 1 => (cnt'[w] = cnt[w] /\ wstate'[w] = wstate[w])]_vars

C9_Witness ==
    /\ call.op = "join" /\ call.err = "ok"
    /\ call.w # 0 /\ cnt[call.w] = Iterations /\ ~joinable(call.o)

\* C10: once two workers have both been joined, their private counters add
\* up to exactly 2 * Iterations.
C10_ConcurrentIndependence ==
    \A v, w \in Workers :
        (v # w /\ joins[v] >= 1 /\ joins[w] >= 1) =>
            cnt[v] + cnt[w] = 2 * Iterations

C10_Witness ==
    /\ call.op = "join" /\ call.err = "ok"
    /\ joins[1] = 1 /\ joins[2] = 1
    /\ cnt[1] + cnt[2] = 2 * Iterations

\* C11 as claimed: in f with try / catch, whatever
\* do_something_in_current_thread() does (return, throw a std::exception,
\* throw anything else), t has been joined exactly once when t is destroyed
\* and when f is left, and the process is never terminated.
FTryScope ==
    {"f_try", "f_try:thread", "f_try:work", "f_try:catch", "f_try:join",
     "f_try:~thread", "f_try:~locals", "f_try:left"}

C11_JoinedOnEveryExit ==
    /\ pc \in FTryScope => ~terminated
    /\ pc \in {"f_try:~thread", "f_try:~locals", "f_try:left"} =>
          (joins[1] = 1 /\ ~joinable(1))

\* C12: in f2 (thread_guard) and in f (scoped_thread) no worker ever calls
\* do_something(i) on a some_local_state whose lifetime has ended; when
\* some_local_state is destroyed every launched worker has returned from its
\* callable with all its accesses done, whether
\* do_something_in_current_thread() returned or threw.
C12_NoDanglingAccess ==
    pc \in GuardedScope =>
        /\ ~uaf
        /\ local = "dead" =>
              \A w \in Workers :
                  wstate[w] # "unborn" =>
                      (wstate[w] = "finished" /\ cnt[w] = Iterations)

C12_Witness ==
    /\ pc = "f:left" /\ local = "dead" /\ exc = "std::exception"
    /\ wstate[1] = "finished" /\ cnt[1] = Iterations /\ ~uaf

\* C13: oops() never waits for its worker and never terminates the process:
\* it detaches the worker once and returns; an access to a dead
\* some_local_state happens only after oops() has returned, by the detached
\* worker; and (workers being scheduled fairly) whenever oops() has returned
\* while the worker still has iterations to run, the worker goes on to call
\* do_something(i) on the dead some_local_state.
OopsScope ==
    {"oops", "oops:thread", "oops:detach", "oops:~thread", "oops:~locals",
     "oops:left"}

C13_DetachHazard ==
    /\ [](pc \in OopsScope => (~terminated /\ \A w \in Workers : joins[w] = 0))
    /\ []((pc \in OopsScope /\ uaf) =>
             (pc = "oops:left" /\ local = "dead" /\ detaches[1] = 1))
    /\ (pc = "oops:left" /\ wstate[1] = "running" /\ cnt[1] < Iterations) ~> uaf

\* oops() has returned and the running worker has used the dead local
C13_Witness ==
    /\ pc = "oops:left" /\ local = "dead"
    /\ detaches[1] = 1 /\ cnt[1] >= 1
    /\ uaf

\* C14: the statements of section 2.3 executed in order: after
\* "thread2 = std::move(thread1)" thread1 is empty and thread2 owns some_func;
\* after "thread1 = std::thread(some_other_func)" thread1 owns
\* some_other_func; after "thread3 = std::move(thread2)" thread2 is empty and
\* thread3 owns some_func; none of these terminates the process; and the
\* final "thread1 = std::move(thread3)" calls std::terminate() and transfers
\* nothing.
C14_TransferSequence ==
    /\ pc \in {"transfer", "transfer:2", "transfer:3", "transfer:4", "transfer:5",
               "transfer:6"} => ~terminated
    /\ pc = "transfer:3" =>
          (thr[thread1] = 0 /\ thr[thread2] = some_func)
    /\ pc \in {"transfer:4", "transfer:5"} =>
          (thr[thread1] = some_other_func /\ thr[thread2] = some_func)
    /\ pc = "transfer:5" => (kind[thread3] = "thread" /\ thr[thread3] = 0)
    /\ pc \in {"transfer:6", "transfer:end"} =>
          /\ thr[thread1] = some_other_func
          /\ thr[thread2] = 0
          /\ thr[thread3] = some_func
    /\ pc = "transfer:end" =>
          /\ terminated
          /\ call = Ret("thread=", thread1, "terminate")

C14_Witness ==
    /\ pc = "transfer:end" /\ terminated
    /\ thr[thread1] = some_other_func /\ thr[thread3] = some_func
    /\ wstate[some_func] = "running" /\ wstate[some_other_func] = "finished"

\* C15: parallel_accumulate(first, last, init) returns what
\* std::accumulate(first, last, init) returns, for every range, init and
\* hardware_concurrency() tried (the empty range and 0 included), without
\* terminating the process; and once the blocks have been handed out, the
\* blocks of the workers followed by the final block of the calling thread
\* are contiguous from first to last, pairwise disjoint, and cover the range.
BlockOf(k) ==
    IF k < num_threads
      THEN threads[k].first .. (threads[k].last - 1)
      ELSE block_start .. (length - 1)

C15_ParallelAccumulateResult ==
    /\ pc = "parallel_accumulate:returned" =>
          (~terminated /\ retval = <<accumulate(data, 0, length, init)>>)
    /\ (pc \in {"parallel_accumulate:join", "parallel_accumulate:returned"}
          /\ length # 0) =>
          /\ Len(threads) = num_threads - 1
          /\ \A k \in 1..(num_threads - 1) :
                /\ threads[k].first = (IF k = 1 THEN 0 ELSE threads[k - 1].last)
                /\ threads[k].first <= threads[k].last
          /\ block_start = (IF num_threads = 1 THEN 0 ELSE threads[num_threads - 1].last)
          /\ block_start <= length
          /\ \A j, k \in 1..num_threads : j # k => BlockOf(j) \cap BlockOf(k) = {}
          /\ UNION {BlockOf(k) : k \in 1..num_threads} = 0..(length - 1)

\* two workers and a final block of another size than theirs
C15_Witness ==
    /\ pc = "parallel_accumulate:returned"
    /\ Len(threads) = 2 /\ length - block_start # block_size
    /\ init # 0
    /\ retval = <<accumulate(data, 0, length, init)>>

\* C16: only worker k ever assigns to results[k] (counting from 1) and only
\* the calling thread (0) to the last element; a worker that has been joined
\* has finished, and no worker is joined twice; when parallel_accumulate
\* returns, every element of results has been assigned by its one writer and
\* every worker has been joined exactly once; and the step that reads
\* results for the final reduction is taken with every worker finished and
\* joined.
WriterOf(k) == IF k = num_threads THEN 0 ELSE k

C16_RaceFree ==
    /\ [](\A k \in DOMAIN writers : writers[k] \subseteq {WriterOf(k)})
    /\ [](\A k \in DOMAIN threads :
            /\ threads[k].joins <= 1
            /\ threads[k].joins = 1 =>
                  (threads[k].worker = "finished" /\ ~threads[k].joinable))
    /\ []((pc = "parallel_accumulate:returned" /\ length # 0) =>
            /\ ~terminated
            /\ \A k \in DOMAIN writers : writers[k] = {WriterOf(k)}
            /\ \A k \in DOMAIN threads : threads[k].joins = 1)
    /\ [][pc' = "parallel_accumulate:returned" =>
            \A k \in DOMAIN threads :
                threads[k].worker = "finished" /\ threads[k].joins = 1]_vars

\* the calling thread has summed its block and waits in the first join()
\* while both workers are still at work
C16_Witness ==
    /\ pc = "parallel_accumulate:join" /\ entry = 1
    /\ Len(threads) = 2
    /\ writers[3] = {0}
    /\ threads[1].worker = "summed" /\ threads[2].worker = "assigned"

\* C17: a scoped_thread owns a worker in every state from its construction
\* to its destruction, and keeps the same worker all that time; its
\* destructor's unconditional join() therefore never terminates the process;
\* and a constructor call ends either with a scoped_thread built or with
\* std::logic_error, never with std::terminate() from destroying a joinable
\* member.
C17_ScopedAlwaysJoinable ==
    /\ [](\A o \in Obj : kind[o] = "scoped_thread" => joinable(o))
    /\ [][\A o \in Obj :
             (kind[o] = "scoped_thread" /\ kind'[o] = "scoped_thread") =>
                 thr'[o] = thr[o]]_vars
    /\ [](call.op = "~scoped_thread" => call.err = "ok")
    /\ [](call.op = "scoped_thread" => call.err \in {"ok", "logic_error"})

\* the destructor has joined the worker the scoped_thread owned
C17_Witness ==
    /\ call.op = "~scoped_thread" /\ ~call.blocked /\ call.err = "ok"
    /\ call.w # 0 /\ joins[call.w] = 1 /\ kind[call.o] = "none"

\* C18: when the destructor of a thread_guard ends, it has joined the guarded
\* thread's worker (once) if the thread was joinable at that point, and has
\* joined nothing and changed no thread if it was not (it had been joined,
\* detached or moved from before); the destructor never terminates the
\* process; and no worker is ever joined twice, or joined and detached.
C18_GuardResolvesAtMostOnce ==
    /\ [][\A o \in Obj :
             Returns({"~thread_guard"}, o) =>
                 /\ call'.err = "ok"
                 /\ joinable(o) =>
                       /\ call'.w = thr[o]
                       /\ joins' = [joins EXCEPT ![thr[o]] = 1]
                       /\ thr' = [thr EXCEPT ![o] = 0]
                 /\ ~joinable(o) =>
                       /\ call'.w = 0
                       /\ UNCHANGED <<thr, joins>>]_vars
    /\ [](\A w \in Workers : joins[w] + detaches[w] <= 1)

\* the guard is destroyed after an explicit join() of the guarded thread
C18_Witness ==
    /\ call.op = "~thread_guard" /\ call.err = "ok" /\ call.w = 0
    /\ kind[call.o] = "thread" /\ ~joinable(call.o)
    /\ \E w \in Workers : joins[w] = 1

====
